---------------------------- MODULE Spec2Model ----------------------------
(***************************************************************************)
(* Model of versions/v2/timetable.py: name resolution, the normalisation  *)
(* pass of get_timetable_data (start-time clamping, lesson and exception  *)
(* entries, sort, grid assembly) and the two caches around                *)
(* get_timetable_data_raw and get_timetable_data.                          *)
(*                                                                         *)
(* Conventions.  A Python str is a sequence of one-character strings (a    *)
(* non-ASCII letter is written by name: "l_stroke", "e_ogonek", ...).  A   *)
(* Python list is a sequence; index i of Python is index i+1 here.  A      *)
(* field of the raw item that is absent (None through the defaultdict of   *)
(* line 132) is written as the falsy value of its type (<<>>, 0, FALSE):   *)
(* the code reads such fields only through "or <default>".  A calendar     *)
(* date is its day number, day 0 being a Monday.  A call that raises is a  *)
(* result whose exc field names the exception.                             *)
(***************************************************************************)
EXTENDS Integers, Sequences, FiniteSets, Bags, TLC

VARIABLES
    \* ---- name resolution (prep_subject .. prep_classroom)
    ovr,        \* the override tables read by get_overrides: category -> (key -> display)
    nameCat,    \* category of the last resolve call ("" before any call)
    nameKey,    \* raw key of the last resolve call
    nameOut,    \* its result
    \* ---- normalisation pass of get_timetable_data
    items,      \* the raw items of the week as first received
    resp,       \* the list handed to the normalisation pass
    call,       \* the arguments of the last call and how resp was arranged from items
    result,     \* what get_timetable_data returned for resp
    \* ---- caches
    now,        \* wall clock, in ticks of SecondsPerTick seconds
    pc,         \* per caller: position inside get_timetable_data
    key,        \* per caller: the (date, raw) arguments of its call since the last tick
    rawResp,    \* per caller: what get_timetable_data_raw returned to it
    ret,        \* per caller: what that call returned
    lru,        \* timed_lru_cache of get_timetable_data: (date, raw) -> entry
    lruBusy,    \* keys of get_timetable_data being computed
    pickle,     \* pickle_cache of get_timetable_data_raw: date -> entry
    pickleBusy, \* dates being fetched
    posts,      \* log of the requests.post calls: date, time, response ok
    passes      \* normalisation passes run since the last tick, per (date, raw)

nameVars  == <<ovr, nameCat, nameKey, nameOut>>
normVars  == <<items, resp, call, result>>
cacheVars == <<now, pc, key, rawResp, ret, lru, lruBusy, pickle, pickleBusy, posts, passes>>
vars      == <<nameVars, normVars, cacheVars>>

---------------------------------------------------------------------------
(* Strings *)

UpperCase == <<"A","B","C","D","E","F","G","H","I","J","K","L","M",
               "N","O","P","Q","R","S","T","U","V","W","X","Y","Z">>
LowerCase == <<"a","b","c","d","e","f","g","h","i","j","k","l","m",
               "n","o","p","q","r","s","t","u","v","w","x","y","z">>
Digits    == <<"0","1","2","3","4","5","6","7","8","9">>

IsUpper(c) == \E i \in 1..26 : UpperCase[i] = c
IsLowerC(c) == \E i \in 1..26 : LowerCase[i] = c
IsLetter(c) == IsUpper(c) \/ IsLowerC(c)
IsDigit(c) == \E i \in 1..10 : Digits[i] = c
DigitVal(c) == (CHOOSE i \in 1..10 : Digits[i] = c) - 1

\* str.lower() on one character
LowerChar(c) == IF IsUpper(c) THEN LowerCase[CHOOSE i \in 1..26 : UpperCase[i] = c] ELSE c

\* str.lower()
lower(x) == [i \in 1..Len(x) |-> LowerChar(x[i])]

\* str.replace("_", " ")
replace_underscore(x) == [i \in 1..Len(x) |-> IF x[i] = "_" THEN " " ELSE x[i]]

\* line 30
canonicalize(x) == lower(replace_underscore(x))

\* int(s) for a string of decimal digits
RECURSIVE int_of(_)
int_of(s) == IF s = <<>> THEN 0 ELSE 10 * int_of(SubSeq(s, 1, Len(s) - 1)) + DigitVal(s[Len(s)])

\* str(n), as an f-string renders a non-negative int
RECURSIVE str_of(_)
str_of(n) == IF n < 10 THEN <<Digits[n + 1]>> ELSE str_of(n \div 10) \o <<Digits[(n % 10) + 1]>>

---------------------------------------------------------------------------
(* Results of calls that may raise *)

Ok(v)      == [exc |-> "", val |-> v]
Raise(e)   == [exc |-> e, val |-> <<>>]

---------------------------------------------------------------------------
(* Name resolution, lines 30-74 *)

Categories == {"subject", "subject_short", "classroom", "group", "teacher"}

\* get_overrides(name) / overrides.parse(): the table of one category
get_overrides(name) == ovr[name]

\* Subject, Teacher and Classroom records of the lookup table; none marks a
\* missing record (None)
Rec(name, short) == [none |-> FALSE, name |-> name, short |-> short]
NoRec            == [none |-> TRUE, name |-> <<>>, short |-> <<>>]

prep_subject(x) ==
    IF x.none THEN <<>>
    ELSE IF x.name \in DOMAIN get_overrides("subject") THEN get_overrides("subject")[x.name]
    ELSE canonicalize(x.name)

prep_subject_short(x) ==
    IF x.none THEN <<>>
    ELSE IF x.short \in DOMAIN get_overrides("subject_short")
         THEN get_overrides("subject_short")[x.short]
    ELSE canonicalize(x.short)

prep_teacher(x) ==
    IF x.none THEN <<>>
    ELSE IF lower(x.short) \in DOMAIN get_overrides("teacher")
         THEN get_overrides("teacher")[lower(x.short)]
    ELSE x.short

prep_classroom(x) ==
    IF x.none THEN <<>>
    ELSE IF x.short \in DOMAIN get_overrides("classroom")
         THEN get_overrides("classroom")[x.short]
    ELSE x.short

\* ---- the pattern of line 46, matched at the start of x (re.match)
CharAt(x, p)  == IF p >= 1 /\ p <= Len(x) THEN x[p] ELSE ""
Is14(x, p)    == CharAt(x, p) \in {"1", "2", "3", "4"}

\* the end of the longest run of digits starting at p (p - 1 when there is none)
RECURSIVE DigitRunEnd(_, _)
DigitRunEnd(x, p) == IF IsDigit(CharAt(x, p)) THEN DigitRunEnd(x, p + 1) ELSE p - 1

\* kl[1-4]?-(\d+) with "kl" at position p1 and "-" at position p3: the digits
\* of the last group, <<>> on no match
TailDigits(x, p1, p3, e) ==
    IF CharAt(x, p1) = "k" /\ CharAt(x, p1 + 1) = "l" /\ CharAt(x, p3) = "-" /\ e >= p3 + 1
    THEN SubSeq(x, p3 + 1, e)
    ELSE <<>>

TailFromDash(x, p1, p3) == TailDigits(x, p1, p3, DigitRunEnd(x, p3 + 1))

TailFromKl(x, p1) == TailFromDash(x, p1, IF Is14(x, p1 + 2) THEN p1 + 3 ELSE p1 + 2)

\* [1-4]?kl[1-4]?-(\d+) from position p; each optional digit is taken when it
\* is there (without it the next literal cannot match)
PatternTail(x, p) == TailFromKl(x, IF Is14(x, p) THEN p + 1 ELSE p)

\* the groups (tok, idx) of the match, or matched = FALSE, given the digits the
\* tail matches behind a one-letter token and behind the literal DSD; the
\* one-letter alternative is tried first
GroupsOf(x, tail1, tail3) ==
    IF ~Is14(x, 1) THEN [matched |-> FALSE, tok |-> <<>>, idx |-> <<>>]
    ELSE IF IsLetter(CharAt(x, 2)) /\ tail1 # <<>>
         THEN [matched |-> TRUE, tok |-> <<CharAt(x, 2)>>, idx |-> tail1]
    ELSE IF CharAt(x, 2) = "D" /\ CharAt(x, 3) = "S" /\ CharAt(x, 4) = "D" /\ tail3 # <<>>
         THEN [matched |-> TRUE, tok |-> <<"D", "S", "D">>, idx |-> tail3]
    ELSE [matched |-> FALSE, tok |-> <<>>, idx |-> <<>>]

\* re.match of line 46
GroupMatch(x) == GroupsOf(x, PatternTail(x, 3), PatternTail(x, 5))

\* the language names of lines 50-57
LanguageName ==
    [t \in {"a", "n", "f", "h", "r", "w"} |->
        CASE t = "a" -> <<"a","n","g","i","e","l","s","k","i">>
          [] t = "n" -> <<"n","i","e","m","i","e","c","k","i">>
          [] t = "f" -> <<"f","r","a","n","c","u","s","k","i">>
          [] t = "h" -> <<"h","i","s","z","p","a","n_acute","s","k","i">>
          [] t = "r" -> <<"r","o","s","y","j","s","k","i">>
          [] t = "w" -> <<"w","l_stroke","o","s","k","i">>]

\* lines 47-60: the display string of a matched code, t its token in lower case
\* and idx its index as str(int(...)) renders it
DecodeGroup(tok, t, idx) ==
    IF t = <<"d", "s", "d">> THEN Ok(<<"D", "S", "D", " ">> \o idx)
    ELSE IF t[1] \notin DOMAIN LanguageName THEN Raise("KeyError")
    ELSE Ok(<<"j","e_ogonek","z","y","k"," ">> \o LanguageName[t[1]] \o <<" ">>
            \o (IF IsUpper(tok[1]) THEN <<"d","u","z_dot","y">> ELSE <<"m","a","l_stroke","y">>)
            \o <<" ">> \o idx)

\* lines 43-61 given the match m of the pattern
GroupOf(x, m) ==
    IF x = <<>> THEN Ok(<<>>)
    ELSE IF x \in DOMAIN get_overrides("group") THEN Ok(get_overrides("group")[x])
    ELSE IF m.matched THEN DecodeGroup(m.tok, lower(m.tok), str_of(int_of(m.idx)))
    ELSE Ok(canonicalize(x))

\* prep_group returns Ok(str) or raises KeyError (line 57)
prep_group(x) == GroupOf(x, GroupMatch(x))

\* resolve(category, raw key): the prep_* function of the category applied to
\* the record whose natural key is k (an empty key stands for an absent value)
Resolve(cat, k) ==
    LET x == IF k = <<>> THEN NoRec ELSE Rec(k, k)
    IN  CASE cat = "subject"       -> Ok(prep_subject(x))
          [] cat = "subject_short" -> Ok(prep_subject_short(x))
          [] cat = "classroom"     -> Ok(prep_classroom(x))
          [] cat = "teacher"       -> Ok(prep_teacher(x))
          [] cat = "group"         -> prep_group(k)

---------------------------------------------------------------------------
(* The lookup table of get_data() and the date helpers of utils.date *)

\* the canonical start time "HH:MM" of each of the 11 periods, period 0 first
PeriodStartTimes ==
    << <<7, 10>>, <<8, 0>>, <<8, 55>>, <<9, 50>>, <<10, 45>>, <<11, 50>>,
       <<12, 45>>, <<13, 40>>, <<14, 35>>, <<15, 30>>, <<16, 30>> >>

\* "x in table.periods.starttime"
KnownStart(s) == \E i \in 1..Len(PeriodStartTimes) : PeriodStartTimes[i] = s

\* table.periods.starttime[s]: the id of the period, a string of digits
periods_starttime(s) ==
    IF KnownStart(s)
    THEN Ok(str_of((CHOOSE i \in 1..Len(PeriodStartTimes) : PeriodStartTimes[i] = s) - 1))
    ELSE Raise("KeyError")

SubjectTable ==
    [id \in {"1", "2"} |->
        IF id = "1" THEN Rec(<<"R","e","l","i","g","i","a">>, <<"R","e","l">>)
        ELSE Rec(<<"C","h","e","m","_","O">>, <<"C","h","_","O">>)]

TeacherTable   == [id \in {"0"} |-> NoRec]
ClassroomTable == [id \in {"0"} |-> NoRec]

\* table.<kind>[id]; an id the table does not know resolves to no record
TableGet(tbl, id) == IF id \in DOMAIN tbl THEN tbl[id] ELSE NoRec

\* utils.date.monday_before: day 0 is a Monday
monday_before(d) == d - (d % 7)

---------------------------------------------------------------------------
(* get_timetable_data, lines 119-206 *)

\* time.fromisoformat("HH:MM") and time(h, m), compared as minutes of the day
time(h, m)           == 60 * h + m
time_fromisoformat(s) == time(s[1], s[2])

\* x or [d]: the first element of a list, d when the list is absent or empty
FirstOr(l, d) == IF l = <<>> THEN d ELSE l[1]

\* lines 139-145: the start time the item is bucketed at; skip marks the
\* "continue" of line 144
ClampStart(obj) ==
    LET start == time_fromisoformat(obj.starttime)
    IN  IF start < time(7, 10) THEN [skip |-> FALSE, starttime |-> <<7, 10>>]
        ELSE IF start > time(16, 30) THEN [skip |-> FALSE, starttime |-> <<16, 30>>]
        ELSE IF ~KnownStart(obj.starttime) THEN [skip |-> TRUE, starttime |-> obj.starttime]
        ELSE [skip |-> FALSE, starttime |-> obj.starttime]

\* date.isoweekday(): Monday is 1
day_index_isoweekday(date_, mb) == (date_ - mb) + 1

\* lines 163 and 179: (date_ - monday_before).days
day_index(date_, mb) == date_ - mb

\* line 158: the lesson's period is looked up under the item's own start time
CardTimeKey(obj, starttime) == obj.starttime

\* lines 175-176 without the clamp
ClampDurationNone(duration, time_index) == duration

\* lines 175-176
ClampDuration(duration, time_index) ==
    IF duration + time_index > 9 THEN 9 - time_index ELSE duration

NoRaw == [present |-> FALSE, subject |-> NoRec, period |-> 0,
          teacher |-> NoRec, classroom |-> NoRec]

\* lines 152-171 given the records looked up, the period id found for the
\* bucketed start time (line 147), the id found at line 158 and the group
EntryOf(obj, mb, raw, subject, teacher, classroom, period, tix, group) ==
    IF period.exc # "" THEN Raise(period.exc)
    ELSE IF tix.exc # "" THEN Raise(tix.exc)
    ELSE IF group.exc # "" THEN Raise(group.exc)
    ELSE Ok([subject       |-> prep_subject(subject),
             subject_short |-> prep_subject_short(subject),
             teacher       |-> prep_teacher(teacher),
             classroom     |-> prep_classroom(classroom),
             color         |-> FirstOr(obj.colors, "#d0ffd0"),
             time_index    |-> int_of(tix.val),
             duration      |-> IF obj.durationperiods = 0 THEN 1 ELSE obj.durationperiods,
             group_raw     |-> FirstOr(obj.groupnames, <<>>),
             group         |-> group.val,
             date          |-> obj.date,
             day_index     |-> day_index(obj.date, mb),
             removed       |-> obj.removed,
             raw           |-> IF raw THEN [present |-> TRUE, subject |-> subject,
                                            period |-> int_of(period.val),
                                            teacher |-> teacher, classroom |-> classroom]
                               ELSE NoRaw])

\* lines 134-171: asdict(TTentry(...)), or the KeyError of line 158 or 161
TTentry(obj, starttime, mb, raw) ==
    EntryOf(obj, mb, raw,
            TableGet(SubjectTable, obj.subjectid),
            TableGet(TeacherTable, FirstOr(obj.teacherids, "0")),
            TableGet(ClassroomTable, FirstOr(obj.classroomids, "0")),
            periods_starttime(starttime),
            periods_starttime(CardTimeKey(obj, starttime)),
            prep_group(FirstOr(obj.groupnames, <<>>)))

\* lines 173-185 given the period id found for the bucketed start time, its
\* index and the group
AbsentOf(obj, mb, period, time_index, group) ==
    IF period.exc # "" THEN Raise(period.exc)
    ELSE IF group.exc # "" THEN Raise(group.exc)
    ELSE Ok([date       |-> obj.date,
             day_index  |-> day_index(obj.date, mb),
             duration   |-> ClampDuration(IF obj.durationperiods = 0 THEN 1
                                          ELSE obj.durationperiods, time_index),
             group_raw  |-> FirstOr(obj.groupnames, <<>>),
             group      |-> group.val,
             name       |-> obj.name,
             time_index |-> time_index])

\* lines 147 and 173-185: TTabsent(...), or the KeyError of line 182
TTabsent(obj, starttime, mb) ==
    AbsentOf(obj, mb, periods_starttime(starttime),
             int_of(periods_starttime(starttime).val),
             prep_group(FirstOr(obj.groupnames, <<>>)))

\* lines 139-185 for one raw item: the entry it becomes (kind "card" or
\* "event"), kind "skip" for the continue of line 144
ItemEntry(obj, c, mb, raw) ==
    IF c.skip THEN [kind |-> "skip", e |-> Ok(<<>>)]
    ELSE IF obj.type = "card" THEN [kind |-> "card", e |-> TTentry(obj, c.starttime, mb, raw)]
    ELSE [kind |-> "event", e |-> TTabsent(obj, c.starttime, mb)]

\* the entries of the raw items, one per item, in the order of r
ItemEntries(r, mb, raw) ==
    [i \in 1..Len(r) |-> ItemEntry(r[i], ClampStart(r[i]), mb, raw)]

\* lines 131-185: the loop over the raw items from item i on, es the entry each
\* item becomes; the first exception ends the call
RECURSIVE ItemLoop(_, _, _, _)
ItemLoop(es, i, data, events) ==
    IF i > Len(es) THEN [exc |-> "", data |-> data, events |-> events]
    ELSE IF es[i].e.exc # "" THEN [exc |-> es[i].e.exc, data |-> data, events |-> events]
    ELSE ItemLoop(es, i + 1,
                  IF es[i].kind = "card" THEN Append(data, es[i].e.val) ELSE data,
                  IF es[i].kind = "event" THEN Append(events, es[i].e.val) ELSE events)

\* x placed behind every entry of the sorted list s whose day is not later
RECURSIVE InsertByDay(_, _)
InsertByDay(s, x) ==
    IF s = <<>> THEN <<x>>
    ELSE IF s[Len(s)].day_index <= x.day_index THEN Append(s, x)
    ELSE Append(InsertByDay(SubSeq(s, 1, Len(s) - 1), x), s[Len(s)])

RECURSIVE StableSortFrom(_, _, _)
StableSortFrom(data, i, acc) ==
    IF i > Len(data) THEN acc ELSE StableSortFrom(data, i + 1, InsertByDay(acc, data[i]))

\* a sort by day_index that is not stable: selection sort, which swaps the
\* earliest-day entry of the rest into place
RECURSIVE SelectionSortFrom(_, _)
SelectionSortFrom(data, i) ==
    IF i >= Len(data) THEN data
    ELSE LET rest == i..Len(data)
             m    == CHOOSE j \in rest :
                        /\ \A k \in rest : data[j].day_index <= data[k].day_index
                        /\ \A k \in rest : data[k].day_index = data[j].day_index => j <= k
             sw   == [data EXCEPT ![i] = data[m], ![m] = data[i]]
         IN  SelectionSortFrom(sw, i + 1)

SortByDayUnstable(data) == SelectionSortFrom(data, 1)

\* line 189: data.sort(key = day_index), a stable sort
SortByDay(data) == StableSortFrom(data, 1, <<>>)

\* lines 192-194
Religia(data) ==
    [i \in 1..Len(data) |->
        IF data[i].subject = <<"r","e","l","i","g","i","a">>
        THEN [data[i] EXCEPT !.group = <<"r","e","l","i","g","i","a"," ","1">>]
        ELSE data[i]]

\* line 197: the keys of days, in the order of insertion
RECURSIVE DayKeys(_, _, _)
DayKeys(data, i, acc) ==
    IF i > Len(data) THEN acc
    ELSE IF \E j \in 1..Len(acc) : acc[j] = data[i].day_index THEN DayKeys(data, i + 1, acc)
    ELSE DayKeys(data, i + 1, Append(acc, data[i].day_index))

\* lines 198-199: days[k]
DayList(data, k) == SelectSeq(data, LAMBDA x : x.day_index = k)

\* itertools.groupby(day, time_index): the runs of consecutive entries of one
\* time_index, as <<key, run>>
RECURSIVE GroupBy(_, _, _)
GroupBy(day, i, acc) ==
    IF i > Len(day) THEN acc
    ELSE IF acc # <<>> /\ acc[Len(acc)][1] = day[i].time_index
         THEN GroupBy(day, i + 1, [acc EXCEPT ![Len(acc)][2] = Append(@, day[i])])
         ELSE GroupBy(day, i + 1, Append(acc, <<day[i].time_index, <<day[i]>> >>))

\* line 196
EmptyGrid == [d \in 1..5 |-> [p \in 1..11 |-> <<>>]]

\* a Python list index: negative indexes count from the end, -1 when out of range
PyIndex(i, n) == IF i >= 0 /\ i < n THEN i ELSE IF i < 0 /\ i >= -n THEN i + n ELSE -1

\* line 204: output[idx][x] = run, d and p the positions the indexes address
AssignCell(out, d, p, run) ==
    IF d < 0 \/ p < 0 THEN [exc |-> "IndexError", grid |-> out.grid]
    ELSE [exc |-> "", grid |-> [out.grid EXCEPT ![d + 1][p + 1] = run]]

\* line 204, for the groups of one day from group g on
RECURSIVE AssignGroups(_, _, _, _)
AssignGroups(out, idx, groups, g) ==
    IF out.exc # "" \/ g > Len(groups) THEN out
    ELSE AssignGroups(AssignCell(out, PyIndex(idx, 5), PyIndex(groups[g][1], 11), groups[g][2]),
                      idx, groups, g + 1)

\* the grid o with the row of day idx standing in every row
AliasRows(o, idx) ==
    IF o.exc # "" THEN o
    ELSE [exc |-> "", grid |-> [d \in 1..5 |-> o.grid[PyIndex(idx, 5) + 1]]]

\* lines 203-204 on a grid whose five rows are one list object
\* ([[[]]*11]*5): what is written to one row shows in every row
AssignDayAliased(out, idx, day) ==
    AliasRows(AssignGroups(out, idx, GroupBy(day, 1, <<>>), 1), idx)

\* lines 203-204 for one day
AssignDay(out, idx, day) == AssignGroups(out, idx, GroupBy(day, 1, <<>>), 1)

\* lines 201-204
RECURSIVE AssignDays(_, _, _, _)
AssignDays(out, data, keys, k) ==
    IF out.exc # "" \/ k > Len(keys) THEN out
    ELSE AssignDays(AssignDay(out, keys[k], DayList(data, keys[k])), data, keys, k + 1)

\* lines 189-194: data after the sort and the religia rule
Sorted(loop) == Religia(SortByDay(loop.data))

\* lines 196-204: the grid of the sorted entries
Grid(data) == AssignDays([exc |-> "", grid |-> EmptyGrid], data, DayKeys(data, 1, <<>>), 1)

\* line 206, or the exception that ended the call
Outcome(loop, out) ==
    IF loop.exc # "" THEN [exc |-> loop.exc, ttdata |-> <<>>, events |-> <<>>]
    ELSE IF out.exc # "" THEN [exc |-> out.exc, ttdata |-> <<>>, events |-> <<>>]
    ELSE [exc |-> "", ttdata |-> out.grid, events |-> loop.events]

GridOfLoop(loop) == Outcome(loop, Grid(Sorted(loop)))

\* lines 121-206: the normalisation pass on the raw items r
Normalize(d, r, raw) ==
    GridOfLoop(ItemLoop(ItemEntries(r, monday_before(d), raw), 1, <<>>, <<>>))

\* the lesson entries the pass created (data after line 194), <<>> when it raised
CreatedOf(loop) == IF loop.exc # "" THEN <<>> ELSE Sorted(loop)

CreatedEntries(d, r, raw) ==
    CreatedOf(ItemLoop(ItemEntries(r, monday_before(d), raw), 1, <<>>, <<>>))

---------------------------------------------------------------------------
(* Inputs *)

\* longest list of raw items of a week fed to the grid assembly
MaxItems == 3
\* longest list of raw items fed to the clamping rules
MaxClampItems == 2
\* longest raw key handed to the name resolution
MaxKeyLen == 3

SeqsUpTo(S, n) == UNION {[1..k -> S] : k \in 0..n}

Item(d, st, ty, dur, sid, grp, nm) ==
    [date |-> d, starttime |-> st, type |-> ty, durationperiods |-> dur,
     subjectid |-> sid, teacherids |-> <<>>, classroomids |-> <<>>,
     groupnames |-> grp, colors |-> <<>>, removed |-> FALSE, name |-> nm]

\* the date of the request (a Wednesday) and the Monday..Friday of its week
RequestDates == {9}
WeekDates    == {7, 8, 9, 10, 11}

\* lessons of two subjects on Monday and Friday at two periods, a lesson at an
\* unlisted start time and an event
GridItems ==
    {Item(d, st, "card", 0, sid, <<>>, "") :
        d \in {7, 11}, st \in {<<8, 0>>, <<8, 55>>}, sid \in {"1", "2"}}
    \cup {Item(7, <<9, 17>>, "card", 0, "1", <<>>, ""),
          Item(11, <<8, 0>>, "event", 0, "", <<>>, "trip")}

\* start times before, at, between, and after the listed periods
ClampTimes == {<<6, 45>>, <<7, 10>>, <<9, 17>>, <<15, 30>>, <<16, 30>>, <<17, 0>>}

ClampItems ==
    {Item(7, st, "card", 0, "2", <<>>, "") : st \in ClampTimes}
    \cup {Item(11, st, "event", dur, "", <<>>, "trip") :
            st \in ClampTimes, dur \in {0, 1, 2, 9, 12}}

NoOverrides == [c \in Categories |-> [k \in {} |-> <<>>]]

\* every category overrides the key "B_" with "X_y"
SomeOverrides == [c \in Categories |-> [k \in {<<"B", "_">>, <<"b", "_">>} |-> <<"X", "_", "y">>]]

OverrideTables == {NoOverrides, SomeOverrides}

KeyAlphabet == {"a", "B", "_"}

\* the group codes of the structured pattern, and one with an unknown language
GroupCodes ==
    { <<"2","a","1","k","l","-","3">>, <<"2","A","1","k","l","-","0","3">>,
      <<"3","D","S","D","k","l","-","1">>, <<"2","x","k","l","-","3">> }

RawKeys == SeqsUpTo(KeyAlphabet, MaxKeyLen) \cup GroupCodes

Orders == {"forward", "reversed", "days_reversed"}

Reverse(s) == [i \in 1..Len(s) |-> s[Len(s) + 1 - i]]

\* the items of s whose date is one of D, in the order of s
OfDates(s, D) == SelectSeq(s, LAMBDA x : x.date \in D)

\* the days of s in reverse order, each day's items in their order in s
RECURSIVE DaysReversed(_)
DaysReversed(s) ==
    IF s = <<>> THEN <<>>
    ELSE LET last == CHOOSE d \in {s[i].date : i \in 1..Len(s)} :
                        \A i \in 1..Len(s) : s[i].date <= d
         IN  OfDates(s, {last}) \o DaysReversed(SelectSeq(s, LAMBDA x : x.date # last))

Arrange(o, s) ==
    CASE o = "forward"       -> s
      [] o = "reversed"      -> Reverse(s)
      [] o = "days_reversed" -> DaysReversed(s)

NoResult == [exc |-> "none", ttdata |-> <<>>, events |-> <<>>]
NoCall   == [order |-> "", date |-> 0, raw |-> FALSE]

---------------------------------------------------------------------------
(* The caches: pickle_cache(timeout_rule = trule) around get_timetable_data_raw *)
(* and timed_lru_cache(5*60) around get_timetable_data                         *)

\* callers of get_timetable_data running at once
NumCallers == 2
\* how far the clock runs, in ticks
MaxTicks == 4

Callers == 1..NumCallers

\* the clock ticks every three hours; a call returns within the tick it began in
SecondsPerTick == 3 * 3600
TicksPerDay    == (24 * 3600) \div SecondsPerTick

\* the datetime at which day d begins, in ticks
datetime(d) == d * TicksPerDay

\* the clock starts six hours before the requested date begins
ClockStart == datetime(9) - 2

\* seconds from tick a to tick b
Elapsed(a, b) == (b - a) * SecondsPerTick

\* a number m * 10^e of seconds
Secs(m, e) == [mant |-> m, exp |-> e]

RECURSIVE Pow10(_)
Pow10(e) == IF e = 0 THEN 1 ELSE 10 * Pow10(e - 1)

\* n < t for a number of seconds n of the clock's range and a duration t
Below(n, t) == IF t.exp >= 9 THEN TRUE ELSE n < t.mant * Pow10(t.exp)

\* the rule without the test of the date: six hours for every entry
trule_six_hours(t, d) == Secs(3600 * 6, 0)

\* lines 76-81: the time-to-live of an entry stored at time t for date d
trule(t, d) == IF t < datetime(d) THEN Secs(3600 * 6, 0) ELSE Secs(1, 18)

\* the dates requested of the cached functions, and their keys
CacheDates == {9}
CacheKeys  == CacheDates \X BOOLEAN
NoKey      == [date |-> 0, raw |-> FALSE, joined |-> FALSE, afterFailure |-> FALSE]

\* what the upstream system holds for the week: a lesson and a two-period event
UpstreamItems ==
    << Item(7, <<8, 0>>, "card", 0, "1", <<>>, ""),
       Item(11, <<15, 30>>, "event", 2, "", <<>>, "trip") >>

\* lines 112-116 raising on a failed response instead of returning
RawResultRaising(ok, ttitems) == IF ~ok THEN Raise("HTTPError") ELSE Ok(ttitems)

\* lines 112-116: what get_timetable_data_raw returns for the response
RawResult(ok, ttitems) == IF ~ok THEN Ok(<<>>) ELSE Ok(ttitems)

NoPickle == [present |-> FALSE, value |-> <<>>, stored |-> 0, ttl |-> Secs(0, 0)]
NoLru    == [present |-> FALSE, value |-> NoResult, stored |-> 0]

\* an entry of the durable cache is served until its time-to-live has elapsed
PickleFresh(e, t) == e.present /\ Below(Elapsed(e.stored, t), e.ttl)

\* line 118: an entry of the result cache is served for 5 minutes
LruFresh(e, t) == e.present /\ Elapsed(e.stored, t) < 5 * 60

\* a miss of the result cache starts a computation whatever else is running
LruMayComputeAlways(k) == TRUE

\* a miss of the result cache starts a computation unless one for the key runs
LruMayCompute(k) == k \notin lruBusy

\* a miss of the durable cache starts a fetch unless one for the key runs
PickleMayFetch(d) == d \notin pickleBusy

\* a failed fetch of date d made when d had begun is in the log
FailedPast(d) ==
    \E i \in 1..Len(posts) :
        posts[i].date = d /\ ~posts[i].ok /\ posts[i].time >= datetime(d)

CachesIdle ==
    /\ now = ClockStart
    /\ pc = [c \in Callers |-> "idle"]
    /\ key = [c \in Callers |-> NoKey]
    /\ rawResp = [c \in Callers |-> <<>>]
    /\ ret = [c \in Callers |-> NoResult]
    /\ lru = [k \in CacheKeys |-> NoLru]
    /\ lruBusy = {}
    /\ pickle = [d \in CacheDates |-> NoPickle]
    /\ pickleBusy = {}
    /\ posts = <<>>
    /\ passes = [k \in CacheKeys |-> 0]

---------------------------------------------------------------------------
(* Initial states *)

NamesIdle == nameCat = "" /\ nameKey = <<>> /\ nameOut = Ok(<<>>)
NormIdle  == resp = <<>> /\ call = NoCall /\ result = NoResult

InitNames ==
    /\ ovr \in OverrideTables /\ NamesIdle
    /\ items = <<>> /\ NormIdle
    /\ CachesIdle

InitGrid ==
    /\ ovr = NoOverrides /\ NamesIdle
    /\ items \in SeqsUpTo(GridItems, MaxItems) /\ NormIdle
    /\ CachesIdle

InitClamp ==
    /\ ovr = NoOverrides /\ NamesIdle
    /\ items \in SeqsUpTo(ClampItems, MaxClampItems) /\ NormIdle
    /\ CachesIdle

---------------------------------------------------------------------------
(* Actions *)

\* one call of the prep_ function of category cat
Prep(cat) ==
    /\ \E k \in RawKeys :
        /\ nameCat' = cat
        /\ nameKey' = k
        /\ nameOut' = Resolve(cat, k)
    /\ UNCHANGED <<ovr, normVars, cacheVars>>

PrepSubject      == Prep("subject")
PrepSubjectShort == Prep("subject_short")
PrepClassroom    == Prep("classroom")
PrepGroup        == Prep("group")
PrepTeacher      == Prep("teacher")

\* the normalisation pass of one call of get_timetable_data on the week's items
CallNormalize(o, raw) ==
    /\ \E d \in RequestDates :
        /\ call' = [order |-> o, date |-> d, raw |-> raw]
        /\ resp' = Arrange(o, items)
        /\ result' = Normalize(d, Arrange(o, items), raw)
    /\ UNCHANGED <<items, nameVars, cacheVars>>

NextNames == PrepSubject \/ PrepSubjectShort \/ PrepClassroom \/ PrepGroup \/ PrepTeacher
NextGrid  == \E o \in Orders, raw \in BOOLEAN : CallNormalize(o, raw)
NextClamp == \E raw \in BOOLEAN : CallNormalize("forward", raw)

SpecNames == InitNames /\ [][NextNames]_vars
SpecGrid  == InitGrid /\ [][NextGrid]_vars
SpecClamp == InitClamp /\ [][NextClamp]_vars

---------------------------------------------------------------------------
(* Claims about the normalisation pass *)

Called   == call.order # ""
Returned == Called /\ result.exc = ""

\* how often e occurs in the list s
Count(s, e) == Cardinality({i \in 1..Len(s) : s[i] = e})

RECURSIVE Sum(_, _)
Sum(f, n) == IF n = 0 THEN 0 ELSE f[n] + Sum(f, n - 1)

\* how often e occurs in the grid g, over all its cells
CountInGrid(g, e) ==
    Sum([d \in 1..Len(g) |-> Sum([p \in 1..Len(g[d]) |-> Count(g[d][p], e)], Len(g[d]))], Len(g))

Created == CreatedEntries(call.date, resp, call.raw)

\* C1: every lesson entry the pass created is in the grid exactly as often as
\* it was created, and all of it in the cell [day_index][time_index]
C1_EveryLessonInOneCell ==
    Returned =>
        \A i \in 1..Len(Created) :
            LET e == Created[i]
            IN  /\ CountInGrid(result.ttdata, e) = Count(Created, e)
                /\ Count(result.ttdata[e.day_index + 1][e.time_index + 1], e) = Count(Created, e)

\* the grid g has 5 rows of 11 cells, every entry of cell [d][p] has day_index d
\* and time_index p, and a cell none of the lessons of created belongs to is empty
ShapedBy(g, created) ==
    /\ Len(g) = 5
    /\ \A d \in 1..5 :
        /\ Len(g[d]) = 11
        /\ \A p \in 1..11 :
            /\ \A i \in 1..Len(g[d][p]) :
                /\ g[d][p][i].day_index = d - 1
                /\ g[d][p][i].time_index = p - 1
            /\ (~\E i \in 1..Len(created) :
                    created[i].day_index = d - 1 /\ created[i].time_index = p - 1)
                => g[d][p] = <<>>

Bucket(obj) ==
    LET start == time(obj.starttime[1], obj.starttime[2])
    IN  IF start < time(7, 10) THEN 0
        ELSE IF start > time(16, 30) THEN 10
        ELSE IF KnownStart(obj.starttime) THEN int_of(periods_starttime(obj.starttime).val)
        ELSE -1

\* the raw items of resp of the given kind bucketed at day d, period p
ItemsAt(isCard, d, p) ==
    {i \in 1..Len(resp) :
        /\ (resp[i].type = "card") = isCard
        /\ resp[i].date - monday_before(call.date) = d
        /\ Bucket(resp[i]) = p}

EventsAt(d, p) ==
    {j \in 1..Len(result.events) :
        result.events[j].day_index = d /\ result.events[j].time_index = p}

\* C3: the call returns whatever the start times are; each cell and each
\* (day, period) of the events holds as many entries as there are raw items
\* bucketed there, an early item counting at the period of 07:10, a late one at
\* the period of 16:30, and an item at an unlisted time in between nowhere
C3_StartTimeClamping ==
    Called =>
        /\ result.exc = ""
        /\ \A d \in 0..4, p \in 0..10 :
            /\ Len(result.ttdata[d + 1][p + 1]) = Cardinality(ItemsAt(TRUE, d, p))
            /\ Cardinality(EventsAt(d, p)) = Cardinality(ItemsAt(FALSE, d, p))

\* the raw items that become exception entries, in the order of resp
EventItems == SelectSeq(resp, LAMBDA x : x.type # "card" /\ ~ClampStart(x).skip)

InputDuration(obj) == IF obj.durationperiods = 0 THEN 1 ELSE obj.durationperiods

\* C4: every exception entry has time_index + duration <= 9; its duration is
\* 9 - time_index when the input duration would pass 9, the input duration otherwise
C4_EventDurationClamp ==
    Returned =>
        /\ Len(result.events) = Len(EventItems)
        /\ \A j \in 1..Len(result.events) :
            LET e   == result.events[j]
                dur == InputDuration(EventItems[j])
            IN  /\ e.time_index + e.duration <= 9
                /\ e.time_index + dur > 9 => e.duration = 9 - e.time_index
                /\ e.time_index + dur <= 9 => e.duration = dur

\* C4 witness: one exception entry was clamped and another kept its duration
C4_Witness ==
    /\ Returned
    /\ \E j \in 1..Len(result.events) :
        result.events[j].duration # InputDuration(EventItems[j])
    /\ \E j \in 1..Len(result.events) :
        result.events[j].duration = InputDuration(EventItems[j]) /\ result.events[j].duration > 1

\* every entry the call returned: the lessons of the grid and the exceptions
ReturnedIndexes ==
    {<<result.ttdata[d][p][i].day_index, result.ttdata[d][p][i].time_index>> :
        <<d, p, i>> \in {t \in (1..5) \X (1..11) \X (1..MaxItems + MaxClampItems) :
                            t[3] <= Len(result.ttdata[t[1]][t[2]])}}
    \cup {<<result.events[j].day_index, result.events[j].time_index>> :
            j \in 1..Len(result.events)}

\* C8 as claimed: day_index in 0..4 and time_index in 0..9
C8_IndexRangeNine ==
    Returned => \A x \in ReturnedIndexes : x[1] \in 0..4 /\ x[2] \in 0..9

\* C8, amended: every lesson entry and every exception entry has day_index in
\* 0..4 and time_index in 0..10, the indexes of the 11 periods
C8_IndexRange ==
    Returned => \A x \in ReturnedIndexes : x[1] \in 0..4 /\ x[2] \in 0..10

\* C8 witness: a Friday entry at the last period beside an entry whose start
\* time was clamped to 16:30
C8_Witness ==
    /\ Returned
    /\ \E x \in ReturnedIndexes : x[2] = 10 /\ x[1] = 4
    /\ \E i \in 1..Len(resp) : time(resp[i].starttime[1], resp[i].starttime[2]) > time(16, 30)

\* the raw items are ordered by non-decreasing date
DayOrdered(s) == \A i, j \in 1..Len(s) : i < j => s[i].date <= s[j].date

\* C5 as claimed: the reversed list yields the grid of the forward list
C5_ReversedSameGrid ==
    (call.order = "reversed" /\ DayOrdered(items)) =>
        LET f == Normalize(call.date, items, call.raw)
        IN  result.exc = f.exc /\ result.ttdata = f.ttdata

\* C5, amended: the list with its days in reverse order, each day's items in
\* their original order, yields the grid of the forward list
C5_DaysReversedSameGrid ==
    (call.order = "days_reversed" /\ DayOrdered(items)) =>
        LET f == Normalize(call.date, items, call.raw)
        IN  result.exc = f.exc /\ result.ttdata = f.ttdata

\* C5 witness: Friday's two lessons of one cell were fed before Monday's lesson
C5_Witness ==
    /\ call.order = "days_reversed" /\ DayOrdered(items) /\ Returned
    /\ resp # items
    /\ \E p \in 1..11 : Len(result.ttdata[5][p]) = 2 /\ result.ttdata[5][p][1] # result.ttdata[5][p][2]
    /\ \E p \in 1..11 : result.ttdata[1][p] # <<>>

---------------------------------------------------------------------------
(* Claims about name resolution *)

Canonicalized == {"subject", "subject_short", "classroom", "group"}

\* C9: for subject, subject-short, classroom and group, a non-empty key with an
\* override resolves to the override, any other non-empty key to its
\* canonicalized form, and an empty key to the empty string
C9_ResolutionPrecedence ==
    nameCat \in Canonicalized =>
        IF nameKey = <<>> THEN nameOut = Ok(<<>>)
        ELSE IF nameKey \in DOMAIN ovr[nameCat] THEN nameOut = Ok(ovr[nameCat][nameKey])
        ELSE nameOut = Ok(lower(replace_underscore(nameKey)))

---------------------------------------------------------------------------
(* Calls of get_timetable_data through the caches *)

InitCache ==
    /\ ovr = NoOverrides /\ NamesIdle
    /\ items = UpstreamItems /\ NormIdle
    /\ CachesIdle

KeyOf(c) == <<key[c].date, key[c].raw>>

\* caller c calls get_timetable_data(date, class_id, raw)
Invoke(c) ==
    /\ pc[c] = "idle"
    /\ \E d \in CacheDates, raw \in BOOLEAN :
        key' = [key EXCEPT ![c] =
                    [date |-> d, raw |-> raw,
                     joined |-> \E o \in Callers \ {c} : pc[o] # "idle" /\ KeyOf(o) = <<d, raw>>,
                     afterFailure |-> FailedPast(d)]]
    /\ pc' = [pc EXCEPT ![c] = "lru"]
    /\ UNCHANGED <<now, rawResp, ret, lru, lruBusy, pickle, pickleBusy, posts, passes>>
    /\ UNCHANGED <<nameVars, normVars>>

\* line 118: the result cache serves a fresh entry; on a miss the caller computes,
\* after waiting for a computation of the same key to end
LruLookup(c) ==
    /\ pc[c] = "lru"
    /\ IF LruFresh(lru[KeyOf(c)], now)
       THEN /\ ret' = [ret EXCEPT ![c] = lru[KeyOf(c)].value]
            /\ pc' = [pc EXCEPT ![c] = "idle"]
            /\ UNCHANGED lruBusy
       ELSE /\ LruMayCompute(KeyOf(c))
            /\ lruBusy' = lruBusy \cup {KeyOf(c)}
            /\ pc' = [pc EXCEPT ![c] = "raw"]
            /\ UNCHANGED ret
    /\ UNCHANGED <<now, key, rawResp, lru, pickle, pickleBusy, posts, passes>>
    /\ UNCHANGED <<nameVars, normVars>>

\* lines 83 and 120: the durable cache serves a fresh entry; on a miss the caller
\* fetches, after waiting for a fetch of the same key to end
PickleLookup(c) ==
    /\ pc[c] = "raw"
    /\ IF PickleFresh(pickle[key[c].date], now)
       THEN /\ rawResp' = [rawResp EXCEPT ![c] = pickle[key[c].date].value]
            /\ pc' = [pc EXCEPT ![c] = "norm"]
            /\ UNCHANGED pickleBusy
       ELSE /\ PickleMayFetch(key[c].date)
            /\ pickleBusy' = pickleBusy \cup {key[c].date}
            /\ pc' = [pc EXCEPT ![c] = "post"]
            /\ UNCHANGED rawResp
    /\ UNCHANGED <<now, key, ret, lru, lruBusy, pickle, posts, passes>>
    /\ UNCHANGED <<nameVars, normVars>>

\* lines 84-116: the body of get_timetable_data_raw, one requests.post; what it
\* returns is stored with the time-to-live trule gives
Post(c) ==
    /\ pc[c] = "post"
    /\ \E ok \in BOOLEAN :
        LET r == RawResult(ok, items)
            d == key[c].date
        IN  /\ posts' = Append(posts, [date |-> d, time |-> now, ok |-> ok])
            /\ pickleBusy' = pickleBusy \ {d}
            /\ IF r.exc = ""
               THEN /\ pickle' = [pickle EXCEPT ![d] =
                            [present |-> TRUE, value |-> r.val, stored |-> now,
                             ttl |-> trule(now, d)]]
                    /\ rawResp' = [rawResp EXCEPT ![c] = r.val]
                    /\ pc' = [pc EXCEPT ![c] = "norm"]
                    /\ UNCHANGED <<ret, lruBusy>>
               ELSE /\ ret' = [ret EXCEPT ![c] = [exc |-> r.exc, ttdata |-> <<>>, events |-> <<>>]]
                    /\ lruBusy' = lruBusy \ {KeyOf(c)}
                    /\ pc' = [pc EXCEPT ![c] = "idle"]
                    /\ UNCHANGED <<pickle, rawResp>>
    /\ UNCHANGED <<now, key, lru, passes>>
    /\ UNCHANGED <<nameVars, normVars>>

\* lines 121-206: the normalisation pass; what it returns is stored in the
\* result cache
Pass(c) ==
    /\ pc[c] = "norm"
    /\ LET r == Normalize(key[c].date, rawResp[c], key[c].raw)
       IN  /\ ret' = [ret EXCEPT ![c] = r]
           /\ lru' = IF r.exc = ""
                     THEN [lru EXCEPT ![KeyOf(c)] =
                              [present |-> TRUE, value |-> r, stored |-> now]]
                     ELSE lru
    /\ passes' = [passes EXCEPT ![KeyOf(c)] = @ + 1]
    /\ lruBusy' = lruBusy \ {KeyOf(c)}
    /\ rawResp' = [rawResp EXCEPT ![c] = <<>>]
    /\ pc' = [pc EXCEPT ![c] = "idle"]
    /\ UNCHANGED <<now, key, pickle, pickleBusy, posts>>
    /\ UNCHANGED <<nameVars, normVars>>

\* three hours pass, between calls; what the callers were returned is behind
\* them, and the result cache drops the entries that are no longer served
Tick ==
    /\ \A c \in Callers : pc[c] = "idle"
    /\ now < ClockStart + MaxTicks
    /\ now' = now + 1
    /\ key' = [c \in Callers |-> NoKey]
    /\ ret' = [c \in Callers |-> NoResult]
    /\ passes' = [k \in CacheKeys |-> 0]
    /\ lru' = [k \in CacheKeys |-> IF LruFresh(lru[k], now + 1) THEN lru[k] ELSE NoLru]
    /\ UNCHANGED <<pc, rawResp, lruBusy, pickle, pickleBusy, posts>>
    /\ UNCHANGED <<nameVars, normVars>>

Step(c) == Invoke(c) \/ LruLookup(c) \/ PickleLookup(c) \/ Post(c) \/ Pass(c)

NextCoalesce == \E c \in Callers : Step(c)
NextCache    == (\E c \in Callers : Step(c)) \/ Tick

\* callers running at once at one time of the clock
SpecCoalesce == InitCache /\ [][NextCoalesce]_vars
\* callers running at once while the clock advances
SpecCache    == InitCache /\ [][NextCache]_vars

---------------------------------------------------------------------------
(* Claims about the caches *)

PostsFor(d) == {i \in 1..Len(posts) : posts[i].date = d}

\* caller c has been returned the result of its call
Completed(c) == pc[c] = "idle" /\ key[c] # NoKey

\* C6: callers of one key that find nothing cached share one upstream request
\* and one normalisation pass, and each is returned the result of that pass
C6_Coalescing ==
    /\ \A d \in CacheDates : Cardinality(PostsFor(d)) <= 1
    /\ \A k \in CacheKeys : passes[k] <= 1
    /\ \A c \in Callers :
        Completed(c) =>
            /\ Cardinality(PostsFor(key[c].date)) = 1
            /\ passes[KeyOf(c)] = 1
            /\ \A i \in PostsFor(key[c].date) :
                ret[c] = Normalize(key[c].date, RawResult(posts[i].ok, items).val, key[c].raw)

\* C6 witness: two callers of one key, the second calling while the first was
\* inside its call, have both been returned a result
C6_Witness ==
    \E a, b \in Callers :
        /\ a # b /\ Completed(a) /\ Completed(b)
        /\ KeyOf(a) = KeyOf(b) /\ key[b].joined
        /\ ret[a].exc = "" /\ ret[a] = ret[b]

\* C7: two upstream requests for one date are at least six hours apart, and the
\* earlier of them was made before the date began: an entry stored once the
\* date has begun is not fetched again
C7_AdaptiveTTL ==
    \A i, j \in 1..Len(posts) :
        (i < j /\ posts[i].date = posts[j].date) =>
            /\ posts[i].time < datetime(posts[i].date)
            /\ Elapsed(posts[i].time, posts[j].time) >= 3600 * 6

\* C7 witness: an entry stored before the date began was fetched again six
\* hours later, and that fetch, made after the date began, still serves a call
\* six hours on
C7_Witness ==
    /\ Len(posts) >= 2
    /\ posts[Len(posts) - 1].date = posts[Len(posts)].date
    /\ posts[Len(posts) - 1].time < datetime(posts[Len(posts)].date)
    /\ Elapsed(posts[Len(posts) - 1].time, posts[Len(posts)].time) = 3600 * 6
    /\ posts[Len(posts)].time >= datetime(posts[Len(posts)].date)
    /\ Elapsed(posts[Len(posts)].time, now) >= 3600 * 6
    /\ \E c \in Callers : Completed(c) /\ key[c].date = posts[Len(posts)].date

EmptyOutcome == [exc |-> "", ttdata |-> EmptyGrid, events |-> <<>>]

\* C10: a failed fetch made once the date has begun is the last upstream
\* request for the date, its empty list is what the durable cache holds from
\* then on, and every call begun after it is returned an all-empty grid and no
\* events
C10_FailureCached ==
    /\ \A i \in 1..Len(posts) :
        (~posts[i].ok /\ posts[i].time >= datetime(posts[i].date)) =>
            /\ \A j \in 1..Len(posts) : j > i => posts[j].date # posts[i].date
            /\ PickleFresh(pickle[posts[i].date], now)
            /\ pickle[posts[i].date].value = <<>>
    /\ \A c \in Callers :
        (Completed(c) /\ key[c].afterFailure) => ret[c] = EmptyOutcome

\* C10 witness: a call begun six hours or more after such a failed fetch has
\* been returned
C10_Witness ==
    \E c \in Callers, i \in 1..Len(posts) :
        /\ Completed(c) /\ key[c].afterFailure /\ key[c].date = posts[i].date
        /\ ~posts[i].ok /\ posts[i].time >= datetime(posts[i].date)
        /\ Elapsed(posts[i].time, now) >= 3600 * 6

=============================================================================
